---- MODULE Spec2Model ----
(***************************************************************************)
(* Model of orka_browser_fetch.py: the batch loop of main(), one download  *)
(* attempt of try_single_download() step by step, the helpers              *)
(* is_pdf_bytes(), save_bytes() and build_url(), the file system under     *)
(* the output directory and the browser pages the program opens.           *)
(*                                                                         *)
(* A byte buffer is the record [head, size, rest]: head holds the bytes at *)
(* positions 0..4 (fewer when the buffer is shorter), size is len(buffer)  *)
(* and rest names the bytes after the head.  The program inspects a buffer *)
(* only through its truth value, its length and the slice data[:5].        *)
(***************************************************************************)
EXTENDS Integers, Sequences, FiniteSets, TLC

\* ---------------------------------------------------------------- bounds
\* last id of the range (--max-id); the range is StartId..MaxId
MaxId == 2
\* how many times the batch is run over the same output directory
MaxRuns == 2
\* bytes that reach the disk before a write is interrupted
CutAt == 3
\* calls of save_bytes made when it is exercised on its own
MaxCalls == 2
\* longest byte string given to is_pdf_bytes when it is exercised on its own
MaxLen == 6

\* ------------------------------------------------------ program constants
Year == 2024
IdWidth == 3
StartId == 1
MinSize == 200
SigLen == 5

\* b"%PDF-"
Magic == <<37, 80, 68, 70, 45>>
\* b"<html"
HtmlHead == <<60, 104, 116, 109, 108>>

NoFile == [head |-> <<>>, size |-> -1, rest |-> "absent"]

Min(a, b) == IF a < b THEN a ELSE b

\* the first n bytes of a buffer (what an interrupted write leaves behind)
Truncate(b, n) ==
  IF n >= b.size THEN b
  ELSE [head |-> SubSeq(b.head, 1, Min(n, Len(b.head))), size |-> n, rest |-> "cut"]

Buf(h, n, r) == [head |-> SubSeq(h, 1, Min(n, Len(h))), size |-> n, rest |-> r]

PdfDoc == Buf(Magic, MinSize + 1, "pdf-a")
PdfSmall == Buf(Magic, MinSize, "pdf-b")
HtmlDoc == Buf(HtmlHead, MinSize + 1, "html")
EmptyDoc == Buf(<<>>, 0, "")

\* what the server may send for a URL
Payloads == {PdfDoc, PdfSmall, HtmlDoc}
\* what may lie at a destination before the first run
OldFiles == {NoFile, Buf(Magic, MinSize + 2, "old"), PdfSmall, HtmlDoc, EmptyDoc}

\* ------------------------------------------------------------ pure helpers
RECURSIVE DigitsOf(_)
DigitsOf(n) == IF n < 10 THEN <<n>> ELSE Append(DigitsOf(n \div 10), n % 10)

RECURSIVE PadLeft(_, _)
PadLeft(s, w) == IF Len(s) >= w THEN s ELSE PadLeft(<<0>> \o s, w)

\* f"{i:0{width}d}"
Sid(n, w) == PadLeft(DigitsOf(n), w)

\* variant: every id is written to the file of the first id
DestOfShared(sid) == <<Sid(StartId, IdWidth), "pdf">>

\* outdir / f"{sid}.pdf"
DestOf(sid) == <<sid, "pdf">>

\* variant: the staging path is the destination itself
PartOfSame(dest) == dest

\* dest.with_suffix(dest.suffix + ".part")
PartOf(dest) == Append(dest, "part")

build_url(year, sid) == [year |-> year, sid |-> sid, query |-> ""]
\* url + "?Open"
WithOpen(url) == [url EXCEPT !.query = "?Open"]

\* data[:5]
Slice5(data) == SubSeq(data.head, 1, Min(SigLen, Len(data.head)))

\* bool(data) for a bytes object
Truthy(data) == data.size > 0

\* variant: only the first four bytes are compared
is_pdf_bytes_short(data) ==
  Truthy(data) /\ SubSeq(data.head, 1, Min(4, Len(data.head))) = SubSeq(Magic, 1, 4)

is_pdf_bytes(data) == Truthy(data) /\ Slice5(data) = Magic

Ids == StartId..MaxId
Dests == {DestOf(Sid(n, IdWidth)) : n \in Ids}
Paths == Dests \cup {PartOf(d) : d \in Dests}
Urls == {build_url(Year, Sid(n, IdWidth)) : n \in Ids}
          \cup {WithOpen(build_url(Year, Sid(n, IdWidth))) : n \in Ids}

Exists(f, p) == f[p] # NoFile

\* variant: the size of the file is not looked at
SkipCondNoSize(f, d) == Exists(f, d) /\ is_pdf_bytes(f[d])

\* variant: the signature test is negated
SkipCondNegated(f, d) ==
  Exists(f, d) /\ f[d].size > MinSize /\ ~is_pdf_bytes(f[d])

\* main, line 132: the skip rule
SkipCond(f, d) ==
  Exists(f, d) /\ f[d].size > MinSize /\ is_pdf_bytes(f[d])

\* ------------------------------------------------------- download source
\* What the browser and the server do for one attempt on a URL: which call
\* of try_single_download raises (if any) and which bytes are downloaded.
Kinds == {"download", "timeout", "new_page_raises", "goto_raises",
          "arm_raises", "evaluate_raises", "save_raises", "read_raises"}
Outcomes ==
  {[kind |-> k, data |-> NoFile] :
      k \in {"timeout", "new_page_raises", "goto_raises", "arm_raises",
             "evaluate_raises"}}
  \cup {[kind |-> "download", data |-> b] : b \in Payloads}
  \cup {[kind |-> k, data |-> PdfDoc] : k \in {"save_raises", "read_raises"}}
\* a URL the source has not been asked for yet, and a URL whose answer may
\* differ from one attempt to the next
Unset == [kind |-> "unset", data |-> NoFile]
Varies == [kind |-> "any", data |-> NoFile]

None == [head |-> <<>>, size |-> -2, rest |-> "None"]

\* ------------------------------------------------------------------ state
VARIABLES
  pc,        \* main: "loop", "try1", "try2", "count", "sleep", "done", "crashed"
  i,         \* main: the loop variable
  ok, miss,  \* main: the two counters
  saved,     \* main: result of the last attempt
  fs,        \* the files of outdir: path -> buffer or NoFile
  ctx, page, \* the shared browsing context and the main page: "open"/"closed"
  temps,     \* number of disposable pages currently open
  apc,       \* try_single_download: position inside the attempt, or "idle"
  url,       \* try_single_download: its url argument
  temp,      \* try_single_download: its page, "none" / "open" / "closed"
  tempAt,    \* where the disposable page has been navigated to
  armed,     \* the download wait of the disposable page is armed
  clicked,   \* the synthesized link has been activated
  dl,        \* the download delivered by the wait, or None
  data,      \* the bytes read back from dest, or None
  ret,       \* the value the attempt returns: "none", "True", "False"
  closes,    \* close() calls on the disposable page of this attempt
  out,       \* what the source does for the attempt in progress
  src,       \* the download source: url -> outcome, Unset or Varies
  run,       \* which run of the batch this is
  log,       \* history: the attempts of the current id, <<url, outcome, result>> each
  skipped,   \* history: ids skipped in this run
  resolved,  \* history: ids counted as success or miss in this run
  okIds,     \* history: ids counted as success in this run
  writes,    \* history: changes made to files for the current id
  saves,     \* history: completed save_as calls for the current id
  fsCall,    \* history: the files when the current attempt was called
  fsRun1,    \* history: the files at the end of the first run (none before)
  sv,        \* save_bytes: [pc, dest, data, old] of the call in progress and
             \* the number of calls made
  args,      \* main: the parsed arguments, [start_id, max_id]
  pb,        \* is_pdf_bytes: [pc, bytes, data, result] of a call
  pauses     \* history: time.sleep calls made in this run

vars == <<pc, i, ok, miss, saved, fs, ctx, page, temps, apc, url, temp, tempAt,
          armed, clicked, dl, data, ret, closes, out, src, run, log, skipped,
          resolved, okIds, writes, saves, fsCall, fsRun1, sv, args, pb, pauses>>

mainVars == <<pc, i, ok, miss, saved>>
browserVars == <<ctx, page>>
attVars == <<apc, url, temp, tempAt, armed, clicked, dl, data, ret, closes, out>>
histVars == <<log, skipped, resolved, okIds, writes, saves, fsCall, fsRun1>>

NoUrl == [year |-> 0, sid |-> <<>>, query |-> ""]
SvIdle == [pc |-> "idle", dest |-> <<>>, data |-> None, old |-> None, calls |-> 0]

PbIdle == [pc |-> "idle", bytes |-> <<>>, data |-> None, result |-> "none"]

dest == DestOf(Sid(i, IdWidth))

\* ------------------------------------------------------------------- Init
\* main up to the ENTER prompt: outdir exists, the context and the main page
\* are open, the counters are zero and the loop is about to start.
\* lo and hi are --start-id and --max-id; the files and the source are given
Boot(lo, hi) ==
  /\ args = [start_id |-> lo, max_id |-> hi]
  /\ pc = "loop" /\ i = lo /\ ok = 0 /\ miss = 0 /\ saved = FALSE
  /\ ctx = "open" /\ page = "open" /\ temps = 0
  /\ apc = "idle" /\ url = NoUrl /\ temp = "none" /\ tempAt = "none"
  /\ armed = FALSE /\ clicked = FALSE /\ dl = None /\ data = None
  /\ ret = "none" /\ closes = 0
  /\ out = Unset
  /\ run = 1
  /\ log = <<>> /\ skipped = {} /\ resolved = {} /\ okIds = {}
  /\ writes = 0 /\ saves = 0 /\ pauses = 0
  /\ fsCall = fs /\ fsRun1 = [p \in DOMAIN fs |-> NoFile]
  /\ sv = SvIdle /\ pb = PbIdle

Start(s) ==
  /\ fs \in {f \in [Paths -> OldFiles] : \A p \in Paths \ Dests : f[p] = NoFile}
  /\ src = [u \in Urls |-> s]
  /\ Boot(StartId, MaxId)

\* the source may answer a URL differently each time it is asked
Init == Start(Varies)

\* ------------------------------------------------- try_single_download
\* The call: the parameters are bound and the locals are fresh.  The source
\* fixes what this URL does the first time it is asked.
Call(u) ==
  /\ url' = u
  /\ apc' = "new_page"
  /\ temp' = "none" /\ tempAt' = "none"
  /\ armed' = FALSE /\ clicked' = FALSE /\ dl' = None /\ data' = None
  /\ ret' = "none" /\ closes' = 0
  /\ fsCall' = fs
  /\ \E o \in Outcomes :
       /\ src[u] \in {Varies, Unset, o}
       /\ out' = o
       /\ src' = IF src[u] = Unset THEN [src EXCEPT ![u] = o] ELSE src

\* The attempt has returned to main: its locals are gone.
Return ==
  /\ apc' = "idle" /\ url' = NoUrl /\ temp' = "none" /\ tempAt' = "none"
  /\ armed' = FALSE /\ clicked' = FALSE /\ dl' = None /\ data' = None
  /\ ret' = "none" /\ closes' = 0 /\ out' = Unset
  /\ fsCall' = fs

\* an exception raised inside the try block: control goes to the handler
Raise == apc' = "except"

\* line 42: temp = ctx.new_page(), before the try block
NewPage ==
  /\ apc = "new_page"
  /\ IF out.kind = "new_page_raises"
       THEN \* no handler in try_single_download nor in main: the exception
            \* leaves main through the with block, which stops the browser
            /\ apc' = "idle" /\ pc' = "crashed"
            /\ ctx' = "closed" /\ page' = "closed"
            /\ UNCHANGED <<temp, temps>>
       ELSE /\ temp' = "open" /\ temps' = temps + 1
            /\ apc' = "goto"
            /\ UNCHANGED <<pc, ctx, page>>
  /\ UNCHANGED <<i, ok, miss, saved, fs, url, tempAt, armed, clicked, dl, data,
                 ret, closes, out, src, run, histVars, sv, args, pb, pauses>>

\* variant: the disposable page is navigated to the target URL
GotoUrl ==
  /\ apc = "goto"
  /\ IF out.kind = "goto_raises"
       THEN Raise /\ UNCHANGED tempAt
       ELSE tempAt' = "target" /\ apc' = "arm"
  /\ UNCHANGED <<mainVars, fs, browserVars, temps, url, temp, armed, clicked,
                 dl, data, ret, closes, out, src, run, histVars, sv,
                 args, pb, pauses>>

\* line 45: temp.goto("about:blank")
Goto ==
  /\ apc = "goto"
  /\ IF out.kind = "goto_raises"
       THEN Raise /\ UNCHANGED tempAt
       ELSE tempAt' = "about:blank" /\ apc' = "arm"
  /\ UNCHANGED <<mainVars, fs, browserVars, temps, url, temp, armed, clicked,
                 dl, data, ret, closes, out, src, run, histVars, sv,
                 args, pb, pauses>>

\* line 49: with temp.expect_download(timeout=timeout_ms) as dl_info
Arm ==
  /\ apc = "arm"
  /\ IF out.kind = "arm_raises"
       THEN Raise /\ UNCHANGED armed
       ELSE armed' = TRUE /\ apc' = "evaluate"
  /\ UNCHANGED <<mainVars, fs, browserVars, temps, url, temp, tempAt, clicked,
                 dl, data, ret, closes, out, src, run, histVars, sv,
                 args, pb, pauses>>

\* lines 51-64: temp.evaluate(<create the link, click it, remove it>, url)
Evaluate ==
  /\ apc = "evaluate"
  /\ IF out.kind = "evaluate_raises"
       THEN Raise /\ armed' = FALSE /\ UNCHANGED clicked
       ELSE clicked' = TRUE /\ apc' = "wait" /\ UNCHANGED armed
  /\ UNCHANGED <<mainVars, fs, browserVars, temps, url, temp, tempAt,
                 dl, data, ret, closes, out, src, run, histVars, sv,
                 args, pb, pauses>>

\* lines 49 and 66: leaving the with block waits for the download event or
\* for the timeout (PWTimeout); dl = dl_info.value
Wait ==
  /\ apc = "wait"
  /\ armed' = FALSE
  /\ IF out.kind = "timeout"
       THEN Raise /\ UNCHANGED dl
       ELSE dl' = out.data /\ apc' = "save_as"
  /\ UNCHANGED <<mainVars, fs, browserVars, temps, url, temp, tempAt, clicked,
                 data, ret, closes, out, src, run, histVars, sv,
                 args, pb, pauses>>

\* line 68: dl.save_as(str(dest)); a failing copy leaves a truncated file
SaveAs ==
  /\ apc = "save_as"
  /\ writes' = writes + 1
  /\ IF out.kind = "save_raises"
       THEN /\ fs' = [fs EXCEPT ![dest] = Truncate(dl, CutAt)]
            /\ Raise /\ UNCHANGED saves
       ELSE /\ fs' = [fs EXCEPT ![dest] = dl]
            /\ saves' = saves + 1
            /\ apc' = "read"
  /\ UNCHANGED <<mainVars, browserVars, temps, url, temp, tempAt, armed, clicked,
                 dl, data, ret, closes, out, src, run, log, skipped, resolved, okIds,
                 fsCall, fsRun1, sv, args, pb, pauses>>

\* line 70: data = dest.read_bytes()
ReadBack ==
  /\ apc = "read"
  /\ IF out.kind = "read_raises"
       THEN Raise /\ UNCHANGED data
       ELSE data' = fs[dest] /\ apc' = "validate"
  /\ UNCHANGED <<mainVars, fs, browserVars, temps, url, temp, tempAt, armed,
                 clicked, dl, ret, closes, out, src, run, histVars, sv,
                 args, pb, pauses>>

\* variant: any file that is not empty is accepted
AcceptsNonEmpty(b) == b.size > 0

\* line 71: data[:5] == b"%PDF-"
Accepts(b) == Slice5(b) = Magic

\* lines 71-74: the bytes pass the test, return True
ValidateOk ==
  /\ apc = "validate"
  /\ Accepts(data)
  /\ ret' = "True" /\ apc' = "finally"
  /\ UNCHANGED <<mainVars, fs, browserVars, temps, url, temp, tempAt, armed,
                 clicked, dl, data, closes, out, src, run, histVars, sv,
                 args, pb, pauses>>

\* variant: the rejected file is not unlinked
DiscardKeepsFile ==
  /\ apc = "validate"
  /\ ~Accepts(data)
  /\ ret' = "False" /\ apc' = "finally"
  /\ UNCHANGED <<mainVars, fs, browserVars, temps, url, temp, tempAt, armed,
                 clicked, dl, data, closes, out, src, run, histVars, sv,
                 args, pb, pauses>>

\* lines 76-79: the bytes fail the test, dest.unlink(missing_ok=True), return False
Discard ==
  /\ apc = "validate"
  /\ ~Accepts(data)
  /\ fs' = [fs EXCEPT ![dest] = NoFile]
  /\ writes' = writes + 1
  /\ ret' = "False" /\ apc' = "finally"
  /\ UNCHANGED <<mainVars, browserVars, temps, url, temp, tempAt, armed, clicked,
                 dl, data, closes, out, src, run, log, skipped, resolved, okIds,
                 saves, fsCall, fsRun1, sv, args, pb, pauses>>

\* variant: the handler removes the destination file
ExceptUnlinks ==
  /\ apc = "except"
  /\ fs' = [fs EXCEPT ![dest] = NoFile]
  /\ ret' = "False" /\ apc' = "finally"
  /\ UNCHANGED <<mainVars, browserVars, temps, url, temp, tempAt, armed,
                 clicked, dl, data, closes, out, src, run, histVars, sv,
                 args, pb, pauses>>

\* lines 81-84: except Exception, return False
Except ==
  /\ apc = "except"
  /\ ret' = "False" /\ apc' = "finally"
  /\ UNCHANGED <<mainVars, fs, browserVars, temps, url, temp, tempAt, armed,
                 clicked, dl, data, closes, out, src, run, histVars, sv,
                 args, pb, pauses>>

\* variant: the page is closed on the successful path only
FinallyOnSuccessOnly ==
  /\ apc = "finally"
  /\ IF ret = "True"
       THEN temp' = "closed" /\ temps' = temps - 1 /\ closes' = closes + 1
       ELSE UNCHANGED <<temp, temps, closes>>
  /\ apc' = "return"
  /\ UNCHANGED <<mainVars, fs, browserVars, url, tempAt, armed, clicked,
                 dl, data, ret, out, src, run, histVars, sv, args, pb, pauses>>

\* lines 85-89: finally, temp.close(); whatever close raises is swallowed
Finally ==
  /\ apc = "finally"
  /\ temp' = "closed" /\ temps' = temps - 1 /\ closes' = closes + 1
  /\ apc' = "return"
  /\ UNCHANGED <<mainVars, fs, browserVars, url, tempAt, armed, clicked,
                 dl, data, ret, out, src, run, histVars, sv, args, pb, pauses>>

\* ------------------------------------------------------------------- main
InRange == i <= args.max_id

\* lines 129-134: the file at dest passes the skip rule, continue
Skip ==
  /\ pc = "loop" /\ InRange
  /\ SkipCond(fs, dest)
  /\ i' = i + 1
  /\ skipped' = skipped \cup {i}
  /\ UNCHANGED <<pc, ok, miss, saved, fs, browserVars, temps, attVars, src, run,
                 log, saves, resolved, okIds, writes, fsCall, fsRun1, sv,
                 args, pb, pauses>>

\* lines 129-139: the skip rule fails, the attempt on the primary URL is called
TryPrimary ==
  /\ pc = "loop" /\ InRange
  /\ ~SkipCond(fs, dest)
  /\ pc' = "try1"
  /\ Call(build_url(Year, Sid(i, IdWidth)))
  /\ UNCHANGED <<i, ok, miss, saved, fs, browserVars, temps, run, log, saves,
                 skipped, resolved, okIds, writes, fsRun1, sv,
                 args, pb, pauses>>

\* lines 139-140: the primary attempt returned True
PrimarySaved ==
  /\ pc = "try1" /\ apc = "return"
  /\ ret = "True"
  /\ saved' = TRUE
  /\ log' = Append(log, <<url, out.kind, ret>>)
  /\ pc' = "count"
  /\ Return
  /\ UNCHANGED <<i, ok, miss, fs, browserVars, temps, src, run, skipped, resolved,
                 okIds, writes, saves, fsRun1, sv, args, pb, pauses>>

\* variant: the fallback is called whatever the primary attempt returned
TryFallbackAlways ==
  /\ pc = "try1" /\ apc = "return"
  /\ saved' = FALSE
  /\ log' = Append(log, <<url, out.kind, ret>>)
  /\ pc' = "try2"
  /\ Call(WithOpen(url))
  /\ UNCHANGED <<i, ok, miss, fs, browserVars, temps, run, skipped, resolved,
                 okIds, writes, saves, fsRun1, sv, args, pb, pauses>>

\* lines 139-142: the primary attempt returned False, the attempt on
\* url + "?Open" is called with the same dest
TryFallback ==
  /\ pc = "try1" /\ apc = "return"
  /\ ret # "True"
  /\ saved' = FALSE
  /\ log' = Append(log, <<url, out.kind, ret>>)
  /\ pc' = "try2"
  /\ Call(WithOpen(url))
  /\ UNCHANGED <<i, ok, miss, fs, browserVars, temps, run, skipped, resolved,
                 okIds, writes, saves, fsRun1, sv, args, pb, pauses>>

\* variant: the result of the fallback attempt is not assigned to saved
FallbackResultDropped ==
  /\ pc = "try2" /\ apc = "return"
  /\ log' = Append(log, <<url, out.kind, ret>>)
  /\ pc' = "count"
  /\ Return
  /\ UNCHANGED <<i, ok, miss, saved, fs, browserVars, temps, src, run, skipped,
                 resolved, okIds, writes, saves, fsRun1, sv, args, pb, pauses>>

\* line 142: the fallback attempt returned
FallbackReturned ==
  /\ pc = "try2" /\ apc = "return"
  /\ saved' = (ret = "True")
  /\ log' = Append(log, <<url, out.kind, ret>>)
  /\ pc' = "count"
  /\ Return
  /\ UNCHANGED <<i, ok, miss, fs, browserVars, temps, src, run, skipped, resolved,
                 okIds, writes, saves, fsRun1, sv, args, pb, pauses>>

\* variant: miss is incremented on the success branch as well
CountOkAndMiss ==
  /\ pc = "count" /\ saved
  /\ ok' = ok + 1 /\ miss' = miss + 1
  /\ resolved' = resolved \cup {i} /\ okIds' = okIds \cup {i}
  /\ pc' = "sleep"
  /\ UNCHANGED <<i, saved, fs, browserVars, temps, attVars, src, run, log,
                 skipped, writes, saves, fsCall, fsRun1, sv, args, pb, pauses>>

\* lines 144-146: saved, ok += 1
CountOk ==
  /\ pc = "count" /\ saved
  /\ ok' = ok + 1
  /\ resolved' = resolved \cup {i} /\ okIds' = okIds \cup {i}
  /\ pc' = "sleep"
  /\ UNCHANGED <<i, miss, saved, fs, browserVars, temps, attVars, src, run, log,
                 skipped, writes, saves, fsCall, fsRun1, sv, args, pb, pauses>>

\* lines 147-149: not saved, miss += 1
CountMiss ==
  /\ pc = "count" /\ ~saved
  /\ miss' = miss + 1
  /\ resolved' = resolved \cup {i}
  /\ pc' = "sleep"
  /\ UNCHANGED <<i, ok, saved, fs, browserVars, temps, attVars, src, run, log,
                 skipped, okIds, writes, saves, fsCall, fsRun1, sv,
                 args, pb, pauses>>

\* variant: the pause is made after a saved id only
SleepAfterSuccessOnly ==
  /\ pc = "sleep"
  /\ pc' = "loop" /\ i' = i + 1
  /\ log' = <<>> /\ saves' = 0 /\ writes' = 0
  /\ pauses' = IF saved THEN pauses + 1 ELSE pauses
  /\ UNCHANGED <<ok, miss, saved, fs, browserVars, temps, attVars, src, run,
                 skipped, resolved, okIds, fsCall, fsRun1, sv, args, pb>>

\* line 151: time.sleep(delay), then the next iteration
Sleep ==
  /\ pc = "sleep"
  /\ pc' = "loop" /\ i' = i + 1
  /\ log' = <<>> /\ saves' = 0 /\ writes' = 0
  /\ pauses' = pauses + 1
  /\ UNCHANGED <<ok, miss, saved, fs, browserVars, temps, attVars, src, run,
                 skipped, resolved, okIds, fsCall, fsRun1, sv, args, pb>>

\* lines 153-158: the range is exhausted: report, page.close(), ctx.close()
Finish ==
  /\ pc = "loop" /\ ~InRange
  /\ pc' = "done"
  /\ page' = "closed" /\ ctx' = "closed"
  /\ fsRun1' = IF run = 1 THEN fs ELSE fsRun1
  /\ UNCHANGED <<i, ok, miss, saved, fs, temps, attVars, src, run, log, skipped,
                 resolved, okIds, writes, saves, fsCall, sv, args, pb, pauses>>

\* the program is started again with the same arguments: main from its first
\* line, with the files the previous run left and the same download source
Rerun ==
  /\ pc = "done" /\ run < MaxRuns
  /\ run' = run + 1
  /\ pc' = "loop" /\ i' = args.start_id /\ ok' = 0 /\ miss' = 0 /\ saved' = FALSE
  /\ ctx' = "open" /\ page' = "open"
  /\ log' = <<>> /\ skipped' = {} /\ resolved' = {} /\ okIds' = {}
  /\ writes' = 0 /\ saves' = 0 /\ pauses' = 0
  /\ UNCHANGED <<fs, temps, attVars, src, fsCall, fsRun1, sv, args, pb>>

Next ==
  \/ Skip \/ TryPrimary \/ PrimarySaved \/ TryFallback \/ FallbackReturned
  \/ CountOk \/ CountMiss \/ Sleep \/ Finish
  \/ NewPage \/ Goto \/ Arm \/ Evaluate \/ Wait \/ SaveAs \/ ReadBack
  \/ ValidateOk \/ Discard \/ Except \/ Finally

\* One run of the batch.  The source may answer a URL differently each time
\* it is asked.
Spec == Init /\ [][Next]_vars

NextAgain == Next \/ Rerun

\* Up to MaxRuns runs over the same output directory.
\* The source behaves identically whenever it is asked for the same URL: its
\* answer for a URL is fixed the first time the URL is attempted.
InitRepeatable == Start(Unset)

SpecRepeatable == InitRepeatable /\ [][NextAgain]_vars

\* ------------------------------------------------------------- save_bytes
\* save_bytes(dest, data), lines 29-32.  main never calls it; SpecSave calls
\* it on the files of outdir, up to MaxCalls times, and lets a write fail or
\* be interrupted at any point.
tmp == PartOf(sv.dest)

\* the caller passes a destination and a buffer
SaveBytesCall(d, b) ==
  /\ sv.pc \in {"idle", "failed"}
  /\ sv.calls < MaxCalls
  /\ sv' = [pc |-> "open", dest |-> d, data |-> b, old |-> fs[d],
            calls |-> sv.calls + 1]
  /\ UNCHANGED <<mainVars, fs, browserVars, temps, attVars, src, run, histVars,
                 args, pb, pauses>>

\* line 31, tmp.write_bytes(data): the file is opened for writing, truncated
SaveOpen ==
  /\ sv.pc = "open"
  /\ fs' = [fs EXCEPT ![tmp] = Truncate(sv.data, 0)]
  /\ sv' = [sv EXCEPT !.pc = "write"]
  /\ UNCHANGED <<mainVars, browserVars, temps, attVars, src, run, histVars,
                 args, pb, pauses>>

\* line 31: the first bytes reach the file
SaveWritePart ==
  /\ sv.pc = "write"
  /\ fs' = [fs EXCEPT ![tmp] = Truncate(sv.data, CutAt)]
  /\ sv' = [sv EXCEPT !.pc = "rest"]
  /\ UNCHANGED <<mainVars, browserVars, temps, attVars, src, run, histVars,
                 args, pb, pauses>>

\* line 31: the remaining bytes reach the file and it is closed
SaveWriteRest ==
  /\ sv.pc = "rest"
  /\ fs' = [fs EXCEPT ![tmp] = sv.data]
  /\ sv' = [sv EXCEPT !.pc = "replace"]
  /\ UNCHANGED <<mainVars, browserVars, temps, attVars, src, run, histVars,
                 args, pb, pauses>>

\* line 32, tmp.replace(dest): one rename
SaveReplace ==
  /\ sv.pc = "replace"
  /\ fs' = [fs EXCEPT ![sv.dest] = fs[tmp], ![tmp] = NoFile]
  /\ sv' = [SvIdle EXCEPT !.calls = sv.calls]
  /\ UNCHANGED <<mainVars, browserVars, temps, attVars, src, run, histVars,
                 args, pb, pauses>>

\* an I/O error or an interruption at any point of lines 31-32: the call ends
\* there and the files stay as they are
SaveFault ==
  /\ sv.pc \in {"open", "write", "rest", "replace"}
  /\ sv' = [sv EXCEPT !.pc = "failed"]
  /\ UNCHANGED <<mainVars, fs, browserVars, temps, attVars, src, run, histVars,
                 args, pb, pauses>>

NextSave ==
  \/ \E d \in Dests, b \in {PdfDoc, HtmlDoc} : SaveBytesCall(d, b)
  \/ SaveOpen \/ SaveWritePart \/ SaveWriteRest \/ SaveReplace \/ SaveFault

SpecSave == Init /\ [][NextSave]_vars

\* ================================================================= claims
primary == build_url(Year, Sid(i, IdWidth))

\* the skip rule as the specification words it: the file exists, it is
\* larger than 200 bytes and its first 5 bytes are the PDF signature
SkipEligible(f, d) ==
  /\ f[d] # NoFile
  /\ f[d].size > MinSize
  /\ Len(f[d].head) = SigLen /\ f[d].head = Magic

\* C1: every attempt that returns has closed its disposable page exactly
\* once, whatever its outcome, and between attempts no disposable page is
\* open.
C1_PageClosedOnce ==
  /\ temps \in {0, 1}
  /\ apc = "return" => temp = "closed" /\ closes = 1 /\ temps = 0
  /\ apc = "idle" => temps = 0
  /\ apc \in {"goto", "arm", "evaluate", "wait", "save_as", "read", "validate",
              "except", "finally"} => temp = "open" /\ closes = 0 /\ temps = 1

\* the fallback attempt of an id returns after an exception, its page closed
\* once, after the primary attempt of the same id had failed validation
C1_Witness ==
  /\ pc = "try2" /\ apc = "return"
  /\ out.kind = "evaluate_raises" /\ ret = "False"
  /\ log[1][2] = "download" /\ log[1][3] = "False"
  /\ closes = 1 /\ temps = 0

\* C2: no exception of an attempt reaches main: the batch is never ended by
\* an exception that left try_single_download.
C2_NoExceptionPropagates == pc # "crashed"

\* C3: an id resolved as a miss has no file at its destination when the
\* orchestrator moves on to the next id.
C3_MissLeavesNoFile ==
  (pc = "sleep" /\ i \in resolved \ okIds) => ~Exists(fs, dest)

\* C4: the destination never holds the bytes of the download in progress
\* before they have passed the signature check; until then they are staged
\* in the ".part" sibling.
C4_DestOnlyAfterValidation ==
  apc \in {"read", "validate"} => fs[dest] # dl /\ fs[PartOf(dest)] = dl

\* C5: during save_bytes the destination changes in one step only, the
\* rename, and that step gives it the complete new content; at every other
\* point, a failed or interrupted write included, it keeps what it had.
C5_SaveBytesAtomic ==
  [][\A d \in Dests :
       fs'[d] # fs[d] =>
         /\ sv.pc = "replace" /\ sv'.pc = "idle"
         /\ d = sv.dest
         /\ fs'[d] = sv.data]_vars

\* a write that stopped after CutAt bytes: the staging file is truncated and
\* the destination still holds its previous content
C5_Witness ==
  /\ sv.pc = "failed"
  /\ sv.old # NoFile /\ sv.data = PdfDoc
  /\ fs[tmp] = Truncate(sv.data, CutAt) /\ fs[tmp] # sv.data
  /\ fs[sv.dest] = sv.old

\* C6: at the head of the loop the id is skipped exactly when its file is
\* skip-eligible; a skip starts no attempt and changes neither counter nor
\* any file, and a file that is not eligible never prevents the attempt.
C6_SkipIff ==
  [][(pc = "loop" /\ InRange) =>
       /\ SkipEligible(fs, dest) =>
            /\ pc' = "loop" /\ i' = i + 1 /\ skipped' = skipped \cup {i}
            /\ apc' = "idle" /\ temps' = temps
            /\ ok' = ok /\ miss' = miss /\ fs' = fs
       /\ ~SkipEligible(fs, dest) =>
            /\ pc' = "try1" /\ i' = i /\ skipped' = skipped
            /\ apc' = "new_page" /\ url' = primary]_vars

\* one id was skipped and the next one, whose file has the PDF signature but
\* only 200 bytes, is being fetched again
C6_Witness ==
  /\ pc = "try1" /\ apc = "new_page"
  /\ skipped = {StartId} /\ i = StartId + 1
  /\ fs[dest] = PdfSmall

\* C7: the first attempt of an id uses the primary URL; when it returns
\* True no other attempt follows, when it returns False the attempt on
\* url + "?Open" follows, and after that one no further attempt: two at most.
C7_PrimaryThenFallback ==
  [][/\ (pc = "loop" /\ pc' # "loop") =>
          pc' \in {"try1", "done"} /\ (pc' = "try1" => url' = primary /\ log = <<>>)
     /\ (pc # "try2" /\ pc' = "try2") =>
          /\ pc = "try1" /\ apc = "return" /\ ret = "False"
          /\ i' = i /\ url' = WithOpen(primary) /\ apc' = "new_page"
     /\ (pc = "try1" /\ apc = "return") =>
          /\ ret = "True" => pc' = "count" /\ saved'
          /\ ret # "True" => pc' = "try2"
     /\ (pc = "try2" /\ apc = "return") => pc' = "count"
     /\ (pc = "try2" /\ pc' # "try2") => pc' \in {"count", "crashed"}
     /\ Len(log') <= 2]_vars

\* an id resolved after two attempts, the second on the fallback URL
C7_Witness ==
  /\ pc = "count" /\ Len(log) = 2
  /\ log[1][1] = primary /\ log[1][3] = "False"
  /\ log[2][1] = WithOpen(primary)

\* C8: an id whose primary attempt timed out and whose fallback attempt
\* succeeded is counted as a success only, and its destination was written
\* exactly once, by the completed save of the fallback attempt.
C8_FallbackSuccess ==
  [][(/\ pc = "count" /\ Len(log) = 2
      /\ log[1][2] = "timeout" /\ log[2][3] = "True") =>
       /\ ok' = ok + 1 /\ miss' = miss
       /\ i \in okIds'
       /\ saves = 1 /\ writes = 1 /\ Exists(fs, dest) /\ Accepts(fs[dest]) /\ fs' = fs]_vars

\* the id has just been counted after a timeout and a successful fallback
C8_Witness ==
  /\ pc = "sleep" /\ Len(log) = 2
  /\ log[1][2] = "timeout" /\ log[2][3] = "True"
  /\ ok = 1 /\ miss = 0 /\ saves = 1 /\ writes = 1

\* C9: the counters only grow, one of them by one each time an id resolves:
\* ok counts the resolved ids with a successful attempt, miss the others,
\* and skipped ids are never counted.
C9_Counters ==
  [][/\ ok' >= ok /\ miss' >= miss
     /\ ok' = Cardinality(okIds') /\ miss' = Cardinality(resolved' \ okIds')
     /\ ok' + miss' = Cardinality(resolved')
     /\ resolved' \cap skipped' = {}
     /\ (pc = "count") =>
          /\ ok' + miss' = ok + miss + 1
          /\ ok' = ok + 1 <=> (\E k \in 1..Len(log) : log[k][3] = "True")
     /\ (pc # "count") => ok' = ok /\ miss' = miss]_vars

\* one id has been counted as a success and another as a miss
C9_Witness ==
  /\ pc = "sleep" /\ ok + miss = 2 /\ ok = 1 /\ miss = 1

\* C10 as stated: with the source behaving identically, a run after the
\* first attempts no id, writes nothing and ends with the files of the first
\* run.
C10_SecondRunWritesNothing ==
  run >= 2 =>
    /\ writes = 0 /\ resolved = {}
    /\ pc = "done" => fs = fsRun1 /\ skipped = Ids

\* C10 amended: with the source behaving identically, a run after the first
\* skips, and neither attempts nor writes, every id whose file passed the
\* skip rule at the end of the first run; it attempts the other ids again;
\* it writes nothing if every id passed; and it ends with files identical to
\* those the first run left.
C10_RerunIdempotent ==
  run >= 2 =>
    /\ \A n \in Ids :
         LET d == DestOf(Sid(n, IdWidth)) IN
           /\ SkipEligible(fsRun1, d) =>
                /\ n \notin resolved /\ fs[d] = fsRun1[d]
                /\ (i = n /\ pc # "done") => pc = "loop"
                /\ (i > n \/ pc = "done") => n \in skipped
           /\ (~SkipEligible(fsRun1, d) /\ (i > n \/ pc = "done")) =>
                n \in resolved
    /\ (\A n \in Ids : SkipEligible(fsRun1, DestOf(Sid(n, IdWidth)))) => writes = 0
    /\ pc = "done" => fs = fsRun1

\* a second run has handled its last id: it skipped one id, fetched the last
\* one again, wrote to its file, and the files are those of the first run
C10_Witness ==
  /\ run = 2 /\ pc = "sleep" /\ i = MaxId
  /\ skipped # {} /\ writes > 0
  /\ fs = fsRun1

\* ------------------------------------------------- the end-to-end scenario
\* --id-width 3 --start-id 1 --max-id 3 on an empty outdir.  The source gives
\* PDF bytes for id 001, bytes without the signature for id 002 on both URLs
\* and no download event for id 003 on both URLs.
ScenarioIds == {1, 2, 3}
ScenarioUrl(n) == build_url(Year, Sid(n, IdWidth))
ScenarioDest(n) == DestOf(Sid(n, IdWidth))
ScenarioPaths ==
  {ScenarioDest(n) : n \in ScenarioIds} \cup {PartOf(ScenarioDest(n)) : n \in ScenarioIds}
ScenarioUrls ==
  {ScenarioUrl(n) : n \in ScenarioIds} \cup {WithOpen(ScenarioUrl(n)) : n \in ScenarioIds}

Download(b) == [kind |-> "download", data |-> b]
TimedOut == [kind |-> "timeout", data |-> NoFile]
PdfAnswers == {Download(b) : b \in {PdfDoc, PdfSmall}}
NonPdfAnswers == {Download(b) : b \in {HtmlDoc, EmptyDoc, Truncate(PdfDoc, CutAt)}}

ScenarioSources ==
  {s \in [ScenarioUrls -> PdfAnswers \cup NonPdfAnswers \cup {TimedOut}] :
     /\ s[ScenarioUrl(1)] \in PdfAnswers
     /\ s[WithOpen(ScenarioUrl(1))] = s[ScenarioUrl(1)]
     /\ s[ScenarioUrl(2)] \in NonPdfAnswers
     /\ s[WithOpen(ScenarioUrl(2))] \in NonPdfAnswers
     /\ s[ScenarioUrl(3)] = TimedOut
     /\ s[WithOpen(ScenarioUrl(3))] = TimedOut}

InitScenario ==
  /\ fs = [p \in ScenarioPaths |-> NoFile]
  /\ src \in ScenarioSources
  /\ Boot(1, 3)

\* the scenario, and the same command run again afterwards
SpecScenario == InitScenario /\ [][NextAgain]_vars

\* C11: the scenario ends with one success and two misses, 001.pdf present
\* with the PDF signature, 002.pdf and 003.pdf absent.
C11_Scenario ==
  (pc = "done" /\ run = 1) =>
    /\ ok = 1 /\ miss = 2
    /\ fs[ScenarioDest(1)] # NoFile
    /\ fs[ScenarioDest(1)].size >= SigLen /\ fs[ScenarioDest(1)].head = Magic
    /\ fs[ScenarioDest(2)] = NoFile
    /\ fs[ScenarioDest(3)] = NoFile

\* the scenario has run to its end: three ids resolved, none skipped
C11_Witness ==
  /\ pc = "done" /\ run = 1 /\ i = 4
  /\ resolved = ScenarioIds /\ okIds = {1} /\ skipped = {}
  /\ fs[ScenarioDest(1)] = src[ScenarioUrl(1)].data

\* ----------------------------------------------------------- is_pdf_bytes
\* is_pdf_bytes(data), lines 26-27, called on its own on every byte string
\* of at most MaxLen bytes over the bytes of the signature and one other.
ByteSet == {Magic[k] : k \in 1..Len(Magic)} \cup {HtmlHead[1]}
ByteStrings == UNION {[1..n -> ByteSet] : n \in 0..MaxLen}

\* the buffer a byte string is
OfBytes(b) ==
  [head |-> SubSeq(b, 1, Min(SigLen, Len(b))), size |-> Len(b), rest |-> "tail"]

InitBytes ==
  /\ fs = [p \in Paths |-> NoFile]
  /\ src = [u \in Urls |-> Varies]
  /\ Boot(StartId, MaxId)

\* the caller passes a byte string
IsPdfBytesCall(b) ==
  /\ pb.pc = "idle"
  /\ pb' = [pc |-> "call", bytes |-> b, data |-> OfBytes(b), result |-> "none"]
  /\ UNCHANGED <<mainVars, fs, browserVars, temps, attVars, src, run, histVars,
                 sv, args, pauses>>

\* line 27: return bool(data and data[:5] == b"%PDF-")
IsPdfBytesReturn ==
  /\ pb.pc = "call"
  /\ pb' = [pb EXCEPT !.pc = "returned",
                      !.result = IF is_pdf_bytes(pb.data) THEN "True" ELSE "False"]
  /\ UNCHANGED <<mainVars, fs, browserVars, temps, attVars, src, run, histVars,
                 sv, args, pauses>>

NextBytes ==
  \/ pb.pc = "idle" /\ \E b \in ByteStrings : IsPdfBytesCall(b)
  \/ IsPdfBytesReturn

SpecBytes == InitBytes /\ [][NextBytes]_vars

\* C12: is_pdf_bytes returns True exactly for the byte strings that are not
\* empty, have at least 5 bytes and start with the bytes of "%PDF-"; for
\* every other one, empty and short ones included, it returns False.
C12_IsPdfBytes ==
  pb.pc = "returned" =>
    /\ pb.result \in {"True", "False"}
    /\ pb.result = "True" <=>
         /\ pb.bytes # <<>>
         /\ Len(pb.bytes) >= 5
         /\ \A k \in 1..5 : pb.bytes[k] = Magic[k]
    /\ Len(pb.bytes) < 5 => pb.result = "False"

\* the function has answered True for a string longer than the signature and
\* ... False is covered by the strings of every shorter length
C12_Witness ==
  /\ pb.pc = "returned" /\ pb.result = "True"
  /\ Len(pb.bytes) = MaxLen /\ pb.bytes[MaxLen] = HtmlHead[1]

\* ------------------------------------------------------------------ pacing
\* C13: every id resolved as success or miss is followed by exactly one pause,
\* made before anything is done for the next id: between the resolution of
\* an id and the end of its pause no attempt starts and the loop does not
\* advance, and the pauses made are as many as the ids resolved.
C13_Pacing ==
  /\ [](/\ pc = "sleep" => /\ apc = "idle" /\ i \in resolved
                           /\ Cardinality(resolved) = pauses + 1
        /\ pc # "sleep" => Cardinality(resolved) = pauses
        /\ apc # "idle" => i \notin resolved)
  /\ [][/\ pc = "sleep" => /\ pc' = "loop" /\ apc' = "idle"
                           /\ i' = i + 1 /\ pauses' = pauses + 1
        /\ pauses' # pauses => pc = "sleep" /\ pauses' = pauses + 1
        /\ i' # i => \/ pc = "sleep"
                     \/ i \in skipped' /\ i \notin resolved]_vars

\* the first id was a miss, the pause was made, and the attempt on the next
\* id has started
C13_Witness ==
  /\ pauses = 1 /\ miss = 1 /\ resolved = {StartId}
  /\ i = StartId + 1 /\ pc = "try1" /\ apc = "new_page"

\* ------------------------------------------------------------- termination
\* main is one sequential thread: a step that can be taken is eventually
\* taken (every Playwright call returns or raises within its timeout).
SpecLive == Init /\ [][Next]_vars /\ WF_vars(Next)

\* C14: whatever the attempts do and whatever files exist beforehand, the
\* batch is never aborted: the loop eventually reaches the terminal state
\* that reports the counters, with every id of the range handled (skipped or
\* resolved) once.
C14_ReachesTerminal ==
  <>(/\ pc = "done"
     /\ skipped \cup resolved = Ids /\ skipped \cap resolved = {}
     /\ ok + miss = Cardinality(resolved))

\* ---------------------------------------------------------------- isolation
\* C15: at most one disposable page is open at any time, it is the page of
\* the attempt in progress, and the shared context and the main page stay
\* open until the last id has been resolved, whatever the attempts' outcomes.
C15_SessionStaysOpen ==
  /\ temps \in {0, 1}
  /\ temps = 1 <=> (temp = "open" /\ apc \notin {"idle", "new_page", "return"})
  /\ pc # "done" => ctx = "open" /\ page = "open"

Buffers ==
  LET whole == Payloads \cup (OldFiles \ {NoFile})
  IN  whole \cup {Truncate(b, n) : b \in whole, n \in 0..MaxLen}

\* the test of line 71 and is_pdf_bytes give the same answer on a buffer
AcceptsAgrees(b) == Accepts(b) <=> is_pdf_bytes(b)

\* C17: after the download event, the bytes read back from dest are the
\* downloaded bytes; the attempt returns True exactly when they pass the
\* signature check, and then dest holds exactly the downloaded bytes; when
\* they fail it, dest has been deleted when the attempt returns False.  The
\* test used agrees with is_pdf_bytes on every buffer.
C17_ReadBackDecides ==
  /\ apc = "read" => fs[dest] = dl
  /\ apc = "validate" => data = dl /\ fs[dest] = dl
  /\ (apc \in {"finally", "return"} /\ data # None) =>
       /\ data = dl
       /\ ret = "True" <=> is_pdf_bytes(data)
       /\ ret = "True" => fs[dest] = dl
       /\ ret # "True" => ret = "False" /\ ~Exists(fs, dest)
  /\ \A b \in Buffers \cup ({data} \ {None}) : AcceptsAgrees(b)

\* a download that is not a PDF was saved over an older file, read back and
\* rejected: the attempt returns False and dest is gone
C17_Witness ==
  /\ apc = "return" /\ ret = "False" /\ data = HtmlDoc /\ dl = HtmlDoc
  /\ Exists(fsCall, dest) /\ ~Exists(fs, dest)

\* ------------------------------------------------- failure before the save
\* the outcomes in which an attempt fails before dl.save_as is reached
FailsBeforeSave ==
  {"timeout", "goto_raises", "arm_raises", "evaluate_raises"}

\* C18: an attempt that times out waiting for the download, or raises while
\* navigating, arming or triggering, leaves the file system as it was when
\* the attempt was called: dest has the same existence and content, also
\* when a file that fails the skip rule lay there.
C18_EarlyFailureKeepsFiles ==
  /\ [](apc # "idle" /\ out.kind \in FailsBeforeSave =>
          /\ fs = fsCall
          /\ apc = "return" => ret = "False" /\ dl = None /\ data = None)
  /\ [][apc # "idle" /\ out.kind \in FailsBeforeSave => fs' = fs]_vars

\* the download wait timed out while a file that is not a PDF lay at dest:
\* the attempt returns False and the file is still there
C18_Witness ==
  /\ apc = "return" /\ ret = "False" /\ out.kind = "timeout"
  /\ fs[dest] = HtmlDoc /\ ~SkipCond(fs, dest) /\ fs = fsCall

\* ------------------------------------------------ the files of other ids
DestOfId(n) == DestOf(Sid(n, IdWidth))

\* C19: every id counted as a success has, from then on and at the terminal
\* state, a file at its own destination that starts with the PDF signature:
\* the work on an id (attempts, deletion, fallback) changes no destination
\* but its own.
C19_SuccessFilesStay ==
  /\ [](/\ \A n \in okIds : /\ Exists(fs, DestOfId(n))
                            /\ SubSeq(fs[DestOfId(n)].head, 1, 5) = Magic
        /\ pc = "done" => ok = Cardinality(okIds))
  /\ [][\A n \in Ids \ {i} : fs'[DestOfId(n)] = fs[DestOfId(n)]]_vars

\* the terminal state after the first id was saved and the second id, whose
\* download was saved at its destination and then deleted, was a miss
C19_Witness ==
  /\ pc = "done" /\ ok = 1 /\ miss = 1 /\ okIds = {StartId}
  /\ fs[DestOfId(StartId)] = PdfSmall
  /\ ~Exists(fs, DestOfId(StartId + 1))

====
